---------------------------- MODULE Spec2Model ----------------------------
(***************************************************************************)
(* memoir-cloud: the photo query service (backend/app) over a blob store   *)
(* partitioned by calendar quarter, with its TTL cache, and the uploader   *)
(* that writes the partitions.                                             *)
(*                                                                         *)
(* Strings the code inspects character by character (container names,      *)
(* takenAt values, cursors) are sequences of one-character strings, so     *)
(* that parsing and string comparison are computed, not assumed.           *)
(***************************************************************************)
EXTENDS Integers, Sequences, FiniteSets, TLC

VARIABLES
    demo_mode,    \* _is_demo_mode(): no storage connection string configured
    containers,   \* the store: names of the containers that exist
    blobs,        \* the store: container name -> its index.json (or NoBlob)
    cache,        \* CacheService._cache: key -> entry (or NoEntry)
    now,          \* the cache timer (seconds)
    resp,         \* the last request served and its response
    chain,        \* a client following nextCursor page after page
    hist,         \* history: what was set, written and invalidated, and when
    writers       \* the runs of upload_folder under way: where each is, what it holds

vars == <<demo_mode, containers, blobs, cache, now, resp, chain, hist, writers>>

\* Python's None where a record or nothing is expected; an absent string is the
\* empty one, an absent year or limit is -1.
None == [none |-> TRUE]
NoCursor == <<>>
NoYear == -1
NoLimit == -1

---------------------------------------------------------------------------
(* Text                                                                    *)

Digits == <<"0", "1", "2", "3", "4", "5", "6", "7", "8", "9">>

IsDigit(c) == \E i \in 1..10 : Digits[i] = c

DigitVal(c) == (CHOOSE i \in 1..10 : Digits[i] = c) - 1

\* Code point of the characters that occur in the modelled strings.
Ord(c) ==
    CASE c = "$" -> 36
      [] c = "+" -> 43
      [] c = "-" -> 45
      [] c = "." -> 46
      [] IsDigit(c) -> 48 + DigitVal(c)
      [] c = ":" -> 58
      [] c = "Q" -> 81
      [] c = "T" -> 84
      [] c = "Z" -> 90
      [] c = "b" -> 98
      [] c = "e" -> 101
      [] c = "q" -> 113
      [] c = "w" -> 119
      [] c = "x" -> 120
      [] OTHER -> 127

\* Python's str < str: lexicographic by code point, a proper prefix is smaller.
RECURSIVE StrLessFrom(_, _, _)
StrLessFrom(a, b, i) ==
    IF i > Len(b) THEN FALSE
    ELSE IF i > Len(a) THEN TRUE
    ELSE IF a[i] = b[i] THEN StrLessFrom(a, b, i + 1)
    ELSE Ord(a[i]) < Ord(b[i])

StrLess(a, b) == StrLessFrom(a, b, 1)

\* int() of a run of decimal digits.
RECURSIVE IntOf(_)
IntOf(s) ==
    IF s = <<>> THEN 0
    ELSE 10 * IntOf(SubSeq(s, 1, Len(s) - 1)) + DigitVal(s[Len(s)])

AllDigits(s) == \A i \in 1..Len(s) : IsDigit(s[i])

\* str.replace("Z", "+00:00")
RECURSIVE ReplaceZ(_)
ReplaceZ(s) ==
    IF s = <<>> THEN <<>>
    ELSE IF Head(s) = "Z" THEN <<"+", "0", "0", ":", "0", "0">> \o ReplaceZ(Tail(s))
    ELSE <<Head(s)>> \o ReplaceZ(Tail(s))

---------------------------------------------------------------------------
(* datetime                                                                *)

IsLeap(y) == (y % 4 = 0 /\ y % 100 # 0) \/ y % 400 = 0

DaysIn(y, m) ==
    IF m = 2 THEN (IF IsLeap(y) THEN 29 ELSE 28)
    ELSE IF m \in {4, 6, 9, 11} THEN 30 ELSE 31

Unparsed == [ok |-> FALSE, aware |-> FALSE, key |-> <<>>]

\* "YYYY-MM-DD" at the front of s.
DateOk(s) ==
    /\ Len(s) >= 10
    /\ AllDigits(SubSeq(s, 1, 4)) /\ s[5] = "-"
    /\ AllDigits(SubSeq(s, 6, 7)) /\ s[8] = "-"
    /\ AllDigits(SubSeq(s, 9, 10))
    /\ IntOf(SubSeq(s, 1, 4)) >= 1
    /\ IntOf(SubSeq(s, 6, 7)) \in 1..12
    /\ IntOf(SubSeq(s, 9, 10)) \in 1..DaysIn(IntOf(SubSeq(s, 1, 4)), IntOf(SubSeq(s, 6, 7)))

\* "HH:MM:SS" at the front of t.
ClockOk(t) ==
    /\ Len(t) >= 8
    /\ AllDigits(SubSeq(t, 1, 2)) /\ t[3] = ":"
    /\ AllDigits(SubSeq(t, 4, 5)) /\ t[6] = ":"
    /\ AllDigits(SubSeq(t, 7, 8))
    /\ IntOf(SubSeq(t, 1, 2)) < 24
    /\ IntOf(SubSeq(t, 4, 5)) < 60
    /\ IntOf(SubSeq(t, 7, 8)) < 60

\* ".ffffff" (microseconds) at the front of t.
FractionOk(t) == Len(t) >= 7 /\ t[1] = "." /\ AllDigits(SubSeq(t, 2, 7))

\* The UTC offset that replace("Z", "+00:00") produces. The takenAt values the
\* uploader writes and the cursors drawn below carry no other offset.
UtcOffset == <<"+", "0", "0", ":", "0", "0">>

DateKey(s) == <<IntOf(SubSeq(s, 1, 4)), IntOf(SubSeq(s, 6, 7)), IntOf(SubSeq(s, 9, 10))>>

ClockKey(t) == <<IntOf(SubSeq(t, 1, 2)), IntOf(SubSeq(t, 4, 5)), IntOf(SubSeq(t, 7, 8))>>

\* datetime.fromisoformat(s): the date, then after a one-character separator
\* the clock time, an optional fraction and an optional offset. The result is
\* timezone-aware exactly when an offset is present; key orders datetimes of
\* equal offset: <<year, month, day, hour, minute, second, microsecond>>.
fromisoformat(s) ==
    IF ~DateOk(s) THEN Unparsed
    ELSE IF Len(s) = 10
    THEN [ok |-> TRUE, aware |-> FALSE, key |-> DateKey(s) \o <<0, 0, 0, 0>>]
    ELSE IF Len(s) < 19 \/ ~ClockOk(SubSeq(s, 12, Len(s))) THEN Unparsed
    ELSE LET t    == SubSeq(s, 12, Len(s))
             frac == FractionOk(SubSeq(t, 9, Len(t)))
             us   == IF frac THEN IntOf(SubSeq(t, 10, 15)) ELSE 0
             rest == SubSeq(t, IF frac THEN 16 ELSE 9, Len(t))
         IN  IF rest = <<>>
             THEN [ok |-> TRUE, aware |-> FALSE, key |-> DateKey(s) \o ClockKey(t) \o <<us>>]
             ELSE IF rest = UtcOffset
             THEN [ok |-> TRUE, aware |-> TRUE, key |-> DateKey(s) \o ClockKey(t) \o <<us>>]
             ELSE Unparsed

\* Lexicographic order of two keys of the same length.
RECURSIVE KeyLess(_, _)
KeyLess(a, b) ==
    IF a = <<>> \/ b = <<>> THEN FALSE
    ELSE IF Head(a) = Head(b) THEN KeyLess(Tail(a), Tail(b))
    ELSE Head(a) < Head(b)

\* datetime < datetime. Comparing an aware with a naive datetime raises
\* TypeError: Comparable is false there.
Comparable(a, b) == a.aware = b.aware

DtLess(a, b) == KeyLess(a.key, b.key)

\* datetime.fromisoformat(text.replace("Z", "+00:00"))
Parse(text) == fromisoformat(ReplaceZ(text))

---------------------------------------------------------------------------
(* The data the model draws from                                           *)

\* Container names: three quarter partitions as the uploader names them and
\* the storage account's static-site container, which is no partition.
N_2025q4 == <<"2", "0", "2", "5", "-", "q", "4">>
N_2025q3 == <<"2", "0", "2", "5", "-", "q", "3">>
N_2024q4 == <<"2", "0", "2", "4", "-", "q", "4">>
N_web == <<"$", "w", "e", "b">>

Names == {N_2025q4, N_2025q3, N_2024q4, N_web}

\* list_containers() enumerates by name.
NameOrder == <<N_web, N_2024q4, N_2025q3, N_2025q4>>

\* takenAt values, as _upload_single_photo writes them: isoformat() + "Z",
\* with microseconds when the capture time has them (a file mtime).
T_1215 == <<"2", "0", "2", "5", "-", "1", "2", "-", "1", "5", "T", "1", "6", ":", "3", "0", ":", "0", "0", "Z">>
T_1120 == <<"2", "0", "2", "5", "-", "1", "1", "-", "2", "0", "T", "1", "0", ":", "1", "5", ":", "0", "0", "Z">>
T_1005 == <<"2", "0", "2", "5", "-", "1", "0", "-", "0", "5", "T", "2", "1", ":", "4", "5", ":", "0", "0", "Z">>
T_1005us == <<"2", "0", "2", "5", "-", "1", "0", "-", "0", "5", "T", "2", "1", ":", "4", "5", ":", "0", "0", ".", "5", "0", "0", "0", "0", "0", "Z">>
T_0822 == <<"2", "0", "2", "5", "-", "0", "8", "-", "2", "2", "T", "1", "4", ":", "0", "0", ":", "0", "0", "Z">>
T_0710 == <<"2", "0", "2", "5", "-", "0", "7", "-", "1", "0", "T", "0", "9", ":", "3", "0", ":", "0", "0", "Z">>
T_2024 == <<"2", "0", "2", "4", "-", "1", "2", "-", "2", "5", "T", "1", "1", ":", "0", "0", ":", "0", "0", "Z">>

Photo(id, takenAt) == [id |-> id, takenAt |-> takenAt]

\* DEMO_PHOTOS, in the order of its keys.
DemoNames == <<N_2025q4, N_2025q3, N_2024q4>>

DEMO_PHOTOS(name) ==
    CASE name = N_2025q4 ->
           [photos |-> <<Photo("demo-001", T_1215), Photo("demo-002", T_1120),
                         Photo("demo-003", T_1005)>>]
      [] name = N_2025q3 ->
           [photos |-> <<Photo("demo-004", T_0822), Photo("demo-005", T_0710)>>]
      [] name = N_2024q4 ->
           [photos |-> <<Photo("demo-006", T_2024)>>]
      [] OTHER -> None

\* The photos a stored catalog may hold, per partition. pc shares pb's second
\* with microseconds; pe shares pd's takenAt.
pa == Photo("pa", T_1215)
pb == Photo("pb", T_1005)
pc == Photo("pc", T_1005us)
pd == Photo("pd", T_0822)
pe == Photo("pe", T_0822)
pf == Photo("pf", T_2024)

Candidates(name) ==
    CASE name = N_2025q4 -> {pa, pb, pc}
      [] name = N_2025q3 -> {pd, pe}
      [] name = N_2024q4 -> {pf}
      [] OTHER -> {}

\* The parse of the timestamps that occur, computed once for each.
Parsed ==
    [text \in {T_1215, T_1120, T_1005, T_1005us, T_0822, T_0710, T_2024} |-> Parse(text)]

ParseTimestamp(text) == IF text \in DOMAIN Parsed THEN Parsed[text] ELSE Parse(text)

NoBlob == [missing |-> TRUE]
NoEntry == [empty |-> TRUE]

---------------------------------------------------------------------------
(* CacheService (app/services/cache_service.py) over cachetools.TTLCache    *)

cache_ttl_seconds == 300

maxsize == 100

YearsKey == <<"available_years">>

IndexKey(name) == <<"index:", name>>

Keys == {YearsKey} \cup {IndexKey(n) : n \in Names}

EmptyCache == [k \in Keys |-> NoEntry]

\* TTLCache: an entry is live strictly before its expiry.
Live(c, k, t) == c[k] # NoEntry /\ t < c[k].expires

\* A get that does not look at the expiry: the fault the TTL contract excludes.
cache_get_unexpired(c, k, t) ==
    IF c[k] # NoEntry THEN [found |-> TRUE, value |-> c[k].value]
    ELSE [found |-> FALSE, value |-> None]

\* CacheService.get: the value, or None (found is false) when absent or expired.
cache_get(c, k, t) ==
    IF Live(c, k, t) THEN [found |-> TRUE, value |-> c[k].value]
    ELSE [found |-> FALSE, value |-> None]

\* TTLCache.expire(): drop what has expired.
Expire(c, t) == [k \in Keys |-> IF Live(c, k, t) THEN c[k] ELSE NoEntry]

\* Cache.__setitem__ at capacity: the entry that was set first goes.
EvictOldest(c) ==
    [c EXCEPT ![CHOOSE k \in Keys :
                  /\ c[k] # NoEntry
                  /\ \A j \in Keys : c[j] # NoEntry => c[k].expires <= c[j].expires] = NoEntry]

\* A set whose entries live twice the configured time: the fault bounded
\* staleness excludes.
StoreIn_long(live, k, v, t) ==
    [live EXCEPT ![k] = [value |-> v, expires |-> t + 2 * cache_ttl_seconds]]

\* TTLCache.__setitem__ once expire() has run: make room for a new key, store
\* the value with expiry timer() + ttl.
StoreIn(live, k, v, t) ==
    [(IF live[k] = NoEntry /\ Cardinality({j \in Keys : live[j] # NoEntry}) >= maxsize
      THEN EvictOldest(live) ELSE live)
     EXCEPT ![k] = [value |-> v, expires |-> t + cache_ttl_seconds]]

\* CacheService.set
cache_set(c, k, v, t) == StoreIn(Expire(c, t), k, v, t)

\* CacheService.delete
cache_delete(c, k) == [c EXCEPT ![k] = NoEntry]

\* CacheService.clear
cache_clear(c) == EmptyCache

\* An invalidation that forgets the years list.
invalidate_container_index(c, name) == cache_delete(c, IndexKey(name))

\* CacheService.invalidate_container
invalidate_container(c, name) == cache_delete(cache_delete(c, IndexKey(name)), YearsKey)

---------------------------------------------------------------------------
(* BlobService (app/services/blob_service.py)                              *)

NoMatch == <<>>

\* re.match(r"^(\d{4})-q([1-4])$", name, re.IGNORECASE): <<year, quarter>>, or
\* None (NoMatch).
_parse_container_name(name) ==
    IF /\ Len(name) = 7
       /\ AllDigits(SubSeq(name, 1, 4))
       /\ name[5] = "-"
       /\ name[6] \in {"q", "Q"}
       /\ name[7] \in {"1", "2", "3", "4"}
    THEN <<IntOf(SubSeq(name, 1, 4)), IntOf(<<name[7]>>)>>
    ELSE NoMatch

\* self.client.list_containers(): the names of the existing containers.
list_containers == SelectSeq(NameOrder, LAMBDA n : n \in containers)

\* sorted(years, reverse=True) of a set of ints.
RECURSIVE SortedDesc(_)
SortedDesc(S) ==
    IF S = {} THEN <<>>
    ELSE <<CHOOSE x \in S : \A y \in S : y <= x>>
         \o SortedDesc(S \ {CHOOSE x \in S : \A y \in S : y <= x})

\* The years of the names that parse.
YearsOf(names) ==
    {_parse_container_name(n)[1] : n \in {m \in names : _parse_container_name(m) # NoMatch}}

Range(s) == {s[i] : i \in 1..Len(s)}

\* get_available_years on a cache miss: list the containers, cache the result.
YearsListed(c, result) ==
    [years |-> result, cache |-> cache_set(c, YearsKey, result, now), hit |-> FALSE,
     listings |-> 1]

YearsFrom(c, cached) ==
    IF cached.found THEN [years |-> cached.value, cache |-> c, hit |-> TRUE, listings |-> 0]
    ELSE YearsListed(c, SortedDesc(YearsOf(Range(list_containers))))

\* get_available_years: [years, cache, hit, listings]. Demo mode reads
\* DEMO_PHOTOS; else the list cached under "available_years" when there is
\* one, else the store's container listing, which is then cached. listings
\* counts the calls of self.client.list_containers().
get_available_years(c) ==
    IF demo_mode
    THEN [years |-> SortedDesc(YearsOf(Range(DemoNames))), cache |-> c, hit |-> FALSE,
          listings |-> 0]
    ELSE YearsFrom(c, cache_get(c, YearsKey, now))

\* A fetch that reads the store whatever the cache holds.
IndexFrom_uncached(c, name, failing, cached) ==
    IF name \in failing THEN [index |-> None, cache |-> c, hit |-> FALSE]
    ELSE IF name \notin containers \/ blobs[name] = NoBlob
    THEN [index |-> None, cache |-> c, hit |-> FALSE]
    ELSE [index |-> blobs[name],
          cache |-> cache_set(c, IndexKey(name), blobs[name], now),
          hit |-> FALSE]

\* A fetch that caches an empty catalog when the store has none or fails.
IndexFrom_negative(c, name, failing, cached) ==
    IF cached.found THEN [index |-> cached.value, cache |-> c, hit |-> TRUE]
    ELSE IF name \in failing \/ name \notin containers \/ blobs[name] = NoBlob
    THEN [index |-> None, cache |-> cache_set(c, IndexKey(name), [photos |-> <<>>], now),
          hit |-> FALSE]
    ELSE [index |-> blobs[name],
          cache |-> cache_set(c, IndexKey(name), blobs[name], now),
          hit |-> FALSE]

\* _get_container_index past the cache lookup. failing holds the containers
\* whose store calls raise during this request; the exception is swallowed.
IndexFrom(c, name, failing, cached) ==
    IF cached.found THEN [index |-> cached.value, cache |-> c, hit |-> TRUE]
    ELSE IF name \in failing THEN [index |-> None, cache |-> c, hit |-> FALSE]
    ELSE IF name \notin containers \/ blobs[name] = NoBlob
    THEN [index |-> None, cache |-> c, hit |-> FALSE]
    ELSE [index |-> blobs[name],
          cache |-> cache_set(c, IndexKey(name), blobs[name], now),
          hit |-> FALSE]

\* _get_container_index: [index, cache, hit].
_get_container_index(c, name, failing) ==
    IF demo_mode THEN [index |-> DEMO_PHOTOS(name), cache |-> c, hit |-> FALSE]
    ELSE IndexFrom(c, name, failing, cache_get(c, IndexKey(name), now))

\* list.sort(key=..., reverse=True) is stable: an element goes before the first
\* one with a strictly smaller key, after every one with an equal key.
RECURSIVE InsertByTakenAt(_, _)
InsertByTakenAt(p, s) ==
    IF s = <<>> THEN <<p>>
    ELSE IF StrLess(Head(s).takenAt, p.takenAt) THEN <<p>> \o s
    ELSE <<Head(s)>> \o InsertByTakenAt(p, Tail(s))

RECURSIVE SortInto(_, _)
SortInto(s, acc) ==
    IF s = <<>> THEN acc ELSE SortInto(Tail(s), InsertByTakenAt(Head(s), acc))

\* A descending sort that turns the order of equal keys around.
sort_photos_reversing(photos) ==
    SortInto([i \in 1..Len(photos) |-> photos[Len(photos) + 1 - i]], <<>>)

\* photos.sort(key=lambda p: p.get("takenAt", ""), reverse=True): by the
\* takenAt STRING, descending.
sort_photos(photos) == SortInto(photos, <<>>)

RECURSIVE InsertByQuarter(_, _)
InsertByQuarter(x, s) ==
    IF s = <<>> THEN <<x>>
    ELSE IF Head(s)[2] < x[2] THEN <<x>> \o s
    ELSE <<Head(s)>> \o InsertByQuarter(x, Tail(s))

RECURSIVE SortQuartersInto(_, _)
SortQuartersInto(s, acc) ==
    IF s = <<>> THEN acc ELSE SortQuartersInto(Tail(s), InsertByQuarter(Head(s), acc))

\* The <<name, quarter>> of the names that parse to the year, in listing order.
ContainersOfYear(names, year) ==
    [i \in 1..Len(SelectSeq(names, LAMBDA n : _parse_container_name(n) # NoMatch
                                              /\ _parse_container_name(n)[1] = year)) |->
       <<SelectSeq(names, LAMBDA n : _parse_container_name(n) # NoMatch
                                     /\ _parse_container_name(n)[1] = year)[i],
         _parse_container_name(
           SelectSeq(names, LAMBDA n : _parse_container_name(n) # NoMatch
                                       /\ _parse_container_name(n)[1] = year)[i])[2]>>]

\* The year's containers after containers.sort(key=lambda x: x[1], reverse=True).
year_containers(year) ==
    SortQuartersInto(
        ContainersOfYear(IF demo_mode THEN DemoNames ELSE list_containers, year), <<>>)

\* A cursor parse that takes an unparseable cursor for the earliest time.
cursor_dt_strict(cursor) ==
    IF cursor = NoCursor THEN Unparsed
    ELSE IF ParseTimestamp(cursor).ok THEN ParseTimestamp(cursor)
    ELSE [ok |-> TRUE, aware |-> TRUE, key |-> <<1, 1, 1, 0, 0, 0, 0>>]

\* cursor_dt: None (Unparsed) when the cursor is absent, empty or unparseable.
cursor_dt(cursor) == IF cursor = NoCursor THEN Unparsed ELSE ParseTimestamp(cursor)

\* A cursor filter that keeps the photos taken at the cursor's time as well.
filter_photos_inclusive(photos, cdt) ==
    IF ~cdt.ok THEN photos
    ELSE SelectSeq(photos, LAMBDA p : ~DtLess(cdt, ParseTimestamp(p.takenAt)))

\* The cursor filter: the photos strictly earlier than the cursor, in order.
filter_photos(photos, cdt) ==
    IF ~cdt.ok THEN photos
    ELSE SelectSeq(photos, LAMBDA p : DtLess(ParseTimestamp(p.takenAt), cdt))

\* The filter's comparison raises for an aware takenAt against a naive cursor.
RaisesOn(photos, cdt) ==
    /\ cdt.ok
    /\ \E i \in 1..Len(photos) : ~Comparable(ParseTimestamp(photos[i].takenAt), cdt)

\* PhotoSummary, reduced to the fields the pagination contract speaks of.
PhotoSummary(p) == [id |-> p.id, takenAt |-> p.takenAt]

\* QuarterSection; quarter is f"Q{quarter}".
QuarterSection(quarter, photos) == [quarter |-> <<"Q", Digits[quarter + 1]>>, photos |-> photos]

\* A take loop that stops one photo early (total + 1 >= limit).
RECURSIVE take_photos_short(_, _, _, _)
take_photos_short(photos, limit, total, taken) ==
    IF photos = <<>> THEN [taken |-> taken, total |-> total, next_cursor |-> NoCursor]
    ELSE IF total + 1 >= limit
    THEN [taken |-> taken, total |-> total, next_cursor |-> Head(photos).takenAt]
    ELSE take_photos_short(Tail(photos), limit, total + 1,
                           Append(taken, PhotoSummary(Head(photos))))

\* A take loop that stops once the running total exceeds the limit.
RECURSIVE take_photos_over(_, _, _, _)
take_photos_over(photos, limit, total, taken) ==
    IF photos = <<>> THEN [taken |-> taken, total |-> total, next_cursor |-> NoCursor]
    ELSE IF total > limit
    THEN [taken |-> taken, total |-> total, next_cursor |-> Head(photos).takenAt]
    ELSE take_photos_over(Tail(photos), limit, total + 1,
                          Append(taken, PhotoSummary(Head(photos))))

\* for photo in photos: stop with next_cursor at the first photo met once the
\* running total has reached the limit, else append it.
RECURSIVE take_photos(_, _, _, _)
take_photos(photos, limit, total, taken) ==
    IF photos = <<>> THEN [taken |-> taken, total |-> total, next_cursor |-> NoCursor]
    ELSE IF total >= limit
    THEN [taken |-> taken, total |-> total, next_cursor |-> Head(photos).takenAt]
    ELSE take_photos(Tail(photos), limit, total + 1, Append(taken, PhotoSummary(Head(photos))))

\* The cache after photos.sort(): the list inside the cached index object
\* itself is reordered (DEMO_PHOTOS is stored sorted already).
sorted_in_place(c, name, index) ==
    IF demo_mode \/ c[IndexKey(name)] = NoEntry THEN c
    ELSE [c EXCEPT ![IndexKey(name)].value = [index EXCEPT !.photos = sort_photos(index.photos)]]

\* not (not index or "photos" not in index)
HasPhotos(index) == "photos" \in DOMAIN index

\* The loop state once an index was fetched, and once its photos were sorted.
Seen(st, name, got) ==
    [st EXCEPT !.cache = got.cache,
               !.served = @ \cup {[name |-> name, hit |-> got.hit, index |-> got.index]}]

SeenSorted(st, name, got) ==
    [st EXCEPT !.cache = sorted_in_place(got.cache, name, got.index),
               !.served = @ \cup {[name |-> name, hit |-> got.hit, index |-> got.index]}]

\* The loop of get_photos_by_year over the year's containers, one container
\* at a time. st: [cache, sections, total, next_cursor, raised, served].
RECURSIVE page_loop(_, _, _, _, _)

\* if total_photos >= limit: break
page_next(conts, cdt, limit, failing, st) ==
    IF st.total >= limit THEN st ELSE page_loop(Tail(conts), cdt, limit, failing, st)

\* if section_photos: sections.append(...)
page_taken(conts, cdt, limit, failing, st, t) ==
    page_next(conts, cdt, limit, failing,
              [st EXCEPT !.sections = IF t.taken # <<>>
                                      THEN Append(@, QuarterSection(Head(conts)[2], t.taken))
                                      ELSE @,
                         !.total = t.total,
                         !.next_cursor = t.next_cursor])

\* A loop that ends at the first container none of whose photos passes the
\* cursor filter.
page_filtered_stop(conts, cdt, limit, failing, st, photos) ==
    IF photos = <<>> THEN st
    ELSE page_taken(conts, cdt, limit, failing, st, take_photos(photos, limit, st.total, <<>>))

\* if not photos: continue
page_filtered(conts, cdt, limit, failing, st, photos) ==
    IF photos = <<>> THEN page_loop(Tail(conts), cdt, limit, failing, st)
    ELSE page_taken(conts, cdt, limit, failing, st, take_photos(photos, limit, st.total, <<>>))

\* photos = [p for p in photos if fromisoformat(...) < cursor_dt], once the
\* photos are sorted
page_sorted(conts, cdt, limit, failing, st, sorted) ==
    IF RaisesOn(sorted, cdt) THEN [st EXCEPT !.raised = TRUE]
    ELSE page_filtered(conts, cdt, limit, failing, st, filter_photos(sorted, cdt))

\* A loop that ends at the first container without a catalog.
page_step_stop(conts, cdt, limit, failing, st, got) ==
    IF ~HasPhotos(got.index) THEN Seen(st, Head(conts)[1], got)
    ELSE page_sorted(conts, cdt, limit, failing, SeenSorted(st, Head(conts)[1], got),
                     sort_photos(got.index.photos))

\* if not index or "photos" not in index: continue
page_step(conts, cdt, limit, failing, st, got) ==
    IF ~HasPhotos(got.index)
    THEN page_loop(Tail(conts), cdt, limit, failing, Seen(st, Head(conts)[1], got))
    ELSE page_sorted(conts, cdt, limit, failing, SeenSorted(st, Head(conts)[1], got),
                     sort_photos(got.index.photos))

page_loop(conts, cdt, limit, failing, st) ==
    IF conts = <<>> THEN st
    ELSE page_step(conts, cdt, limit, failing, st,
                   _get_container_index(st.cache, Head(conts)[1], failing))

Raised == [raised |-> TRUE]

\* The calls of self.client.list_containers() a listing or a lookup makes: one,
\* whatever the cache holds; none in demo mode, which reads DEMO_PHOTOS.
Enumerations == IF demo_mode THEN 0 ELSE 1

\* A response whose hasMore tells whether the page holds a photo.
PageResult_nonempty(year, st) ==
    [result |-> IF st.raised THEN Raised
                ELSE [year |-> year, sections |-> st.sections,
                      nextCursor |-> st.next_cursor,
                      hasMore |-> st.total > 0],
     cache |-> st.cache, served |-> st.served, listings |-> Enumerations]

\* PhotosResponse(year, sections, nextCursor=next_cursor,
\*                hasMore=next_cursor is not None)
PageResult(year, st) ==
    [result |-> IF st.raised THEN Raised
                ELSE [year |-> year, sections |-> st.sections,
                      nextCursor |-> st.next_cursor,
                      hasMore |-> st.next_cursor # NoCursor],
     cache |-> st.cache, served |-> st.served, listings |-> Enumerations]

\* A listing that answers a year without containers with an empty page.
PageOver_empty(c, year, conts, cursor, limit, failing) ==
    PageResult(year, page_loop(conts, cursor_dt(cursor), limit, failing,
                               [cache |-> c, sections |-> <<>>, total |-> 0,
                                next_cursor |-> NoCursor, raised |-> FALSE,
                                served |-> {}]))

\* if not containers: return None
PageOver(c, year, conts, cursor, limit, failing) ==
    IF conts = <<>> THEN [result |-> None, cache |-> c, served |-> {},
                          listings |-> Enumerations]
    ELSE PageResult(year, page_loop(conts, cursor_dt(cursor), limit, failing,
                                    [cache |-> c, sections |-> <<>>, total |-> 0,
                                     next_cursor |-> NoCursor, raised |-> FALSE,
                                     served |-> {}]))

\* get_photos_by_year: [result, cache, served, listings]. result is None (no container of
\* the year), Raised (an exception left the method) or the PhotosResponse.
get_photos_by_year(c, year, cursor, limit, failing) ==
    PageOver(c, year, year_containers(year), cursor, limit, failing)

\* for photo in index["photos"]: the first photo with the id, or None.
find_photo(photos, photo_id) ==
    IF \E i \in 1..Len(photos) : photos[i].id = photo_id
    THEN photos[CHOOSE i \in 1..Len(photos) :
                  /\ photos[i].id = photo_id
                  /\ \A j \in 1..(i - 1) : photos[j].id # photo_id]
    ELSE None

\* The loop of get_photo_by_id over the listed containers that parse.
\* st: [result, cache, served].
RECURSIVE lookup_loop(_, _, _, _)

\* A lookup that gives up after the first catalog it could read.
lookup_found_first(names, photo_id, failing, st, found) ==
    IF found # None THEN [st EXCEPT !.result = PhotoSummary(found)] ELSE st

lookup_found(names, photo_id, failing, st, found) ==
    IF found # None THEN [st EXCEPT !.result = PhotoSummary(found)]
    ELSE lookup_loop(Tail(names), photo_id, failing, st)

lookup_step(names, photo_id, failing, st, got) ==
    IF ~HasPhotos(got.index)
    THEN lookup_loop(Tail(names), photo_id, failing, Seen(st, Head(names), got))
    ELSE lookup_found(names, photo_id, failing, Seen(st, Head(names), got),
                      find_photo(got.index.photos, photo_id))

lookup_loop(names, photo_id, failing, st) ==
    IF names = <<>> THEN st
    ELSE IF _parse_container_name(Head(names)) = NoMatch
    THEN lookup_loop(Tail(names), photo_id, failing, st)
    ELSE lookup_step(names, photo_id, failing, st,
                     _get_container_index(st.cache, Head(names), failing))

\* get_photo_by_id: [result, cache, served, listings]; result is the PhotoDetailResponse
\* (reduced to id and takenAt) or None. Demo mode scans DEMO_PHOTOS.
get_photo_by_id(c, photo_id, failing) ==
    lookup_loop(IF demo_mode THEN DemoNames ELSE list_containers, photo_id, failing,
                [result |-> None, cache |-> c, served |-> {}, listings |-> Enumerations])

---------------------------------------------------------------------------
(* PhotoUploader (uploader/memoir_uploader/uploader.py)                    *)

\* str(n) of a non-negative int.
RECURSIVE ToDigits(_)
ToDigits(n) ==
    IF n < 10 THEN <<Digits[n + 1]>> ELSE ToDigits(n \div 10) \o <<Digits[(n % 10) + 1]>>

\* A quarter counted from the month itself.
_get_quarter_from_zero(month) == month \div 3 + 1

\* (month - 1) // 3 + 1
_get_quarter(month) == (month - 1) \div 3 + 1

\* f"{date.year}-q{quarter}"
_get_container_name(year, month) ==
    ToDigits(year) \o <<"-", "q">> \o ToDigits(_get_quarter(month))

\* The container upload_folder groups a photo under: from the capture date
\* that _upload_single_photo later writes as takenAt.
ContainerFor(photo) ==
    _get_container_name(ParseTimestamp(photo.takenAt).key[1],
                        ParseTimestamp(photo.takenAt).key[2])

\* PhotoUploader._get_container_index: the stored index, or a fresh one.
uploader_index(name) == IF blobs[name] = NoBlob THEN [photos |-> <<>>] ELSE blobs[name]

---------------------------------------------------------------------------
(* Bounds and inputs                                                       *)

MaxCatalog == 2     \* photos per stored catalog
MaxLimit == 3       \* largest page size requested
TickStep == 200     \* seconds the clock advances at a time
MaxTime == 400      \* the clock stops here

default_limit == 50
min_limit == 1
max_limit == 100

C_garbage == <<"x">>
C_naive == <<"2", "0", "2", "5", "-", "1", "0", "-", "0", "5", "T", "2", "1", ":", "4", "5", ":", "0", "0">>

C_badmonth == <<"2", "0", "2", "5", "-", "1", "3", "-", "0", "5", "T", "2", "1", ":", "4", "5", ":", "0", "0", "Z">>

NoChain == [nochain |-> TRUE]
NoWriters == <<>>
NoResp == [op |-> "none"]

\* Sequences of distinct elements of S, at most n long.
RECURSIVE DistinctSeqs(_, _)
DistinctSeqs(S, n) ==
    IF n = 0 THEN {<<>>}
    ELSE {<<>>} \cup UNION {{<<x>> \o s : s \in DistinctSeqs(S \ {x}, n - 1)} : x \in S}

Absent == [absent |-> TRUE]

\* An index.json without a "photos" list.
NoPhotosList == [version |-> "1"]

\* What a partition's container may hold when the service starts: nothing
\* (no container), no index.json, an index.json without a photos list, or a
\* catalog in any storage order.
StoredOptions(name) ==
    {Absent, NoBlob, NoPhotosList}
      \cup {[photos |-> s] : s \in DistinctSeqs(Candidates(name), MaxCatalog)}

InitHist ==
    [held    |-> {},                         \* keys set and not deleted, cleared or evicted since
     setAt   |-> [k \in Keys |-> 0],         \* when a held key was last set
     setVal  |-> [k \in Keys |-> None],      \* the value it was set to
     listed  |-> {},                         \* the containers there were when the years were set
     wroteAt |-> 0]                          \* when the store last changed

---------------------------------------------------------------------------
(* Requests (app/routers/photos.py) and what they leave behind             *)

Max(S) == CHOOSE x \in S : \A y \in S : y <= x

\* A page's photos, section after section.
RECURSIVE PagePhotos(_)
PagePhotos(sections) ==
    IF sections = <<>> THEN <<>> ELSE Head(sections).photos \o PagePhotos(Tail(sections))

IsPage(result) == "sections" \in DOMAIN result

\* The keys a request set: every index it read from the store.
KeysSet(served) ==
    IF demo_mode THEN {}
    ELSE {IndexKey(s.name) : s \in {x \in served : ~x.hit /\ x.index # None}}

ServedIndex(served, name) == (CHOOSE s \in served : s.name = name).index

\* History after a request that took the cache from c to c2 and set `keys`
\* (a key the cache held live before and does not hold after was evicted).
Evicted(c, c2) == {k \in Keys : c2[k] = NoEntry /\ Live(c, k, now)}

HistAfter(h, c, c2, keys, valueOf(_)) ==
    [h EXCEPT !.held   = (@ \cup keys) \ Evicted(c, c2),
              !.setAt  = [k \in Keys |-> IF k \in keys THEN now
                                         ELSE IF k \in Evicted(c, c2) THEN 0 ELSE @[k]],
              !.setVal = [k \in Keys |-> IF k \in keys THEN valueOf(k)
                                         ELSE IF k \in Evicted(c, c2) THEN None ELSE @[k]],
              !.listed = IF YearsKey \in keys THEN containers
                         ELSE IF YearsKey \in Evicted(c, c2) THEN {} ELSE @]

\* A years body whose default is the last year of the list.
YearsBody_last(years) ==
    IF years = <<>> THEN [years |-> <<>>, default |-> NoYear]
    ELSE [years |-> SortedDesc(Range(years)), default |-> years[Len(years)]]

\* get_years: the body of the YearsResponse.
YearsBody(years) ==
    IF years = <<>> THEN [years |-> <<>>, default |-> NoYear]
    ELSE [years |-> SortedDesc(Range(years)), default |-> Max(Range(years))]

ServeYears(r) ==
    /\ cache' = r.cache
    /\ resp' = [op |-> "years", at |-> now, status |-> 200, body |-> YearsBody(r.years),
                hit |-> r.hit, listings |-> r.listings]
    /\ hist' = HistAfter(hist, cache, r.cache, IF demo_mode \/ r.hit THEN {} ELSE {YearsKey},
                         LAMBDA k : r.years)
    /\ chain' = NoChain
    /\ UNCHANGED <<writers, demo_mode, containers, blobs, now>>

\* GET /years
GetYears == ServeYears(get_available_years(cache))

\* The listing a client has followed so far, after one more response.
ChainAfter(ch, year, cursor, limit, failing, follows, result) ==
    IF ~IsPage(result) THEN NoChain
    ELSE IF follows
    THEN [ch EXCEPT !.photos = @ \o PagePhotos(result.sections),
                    !.next = result.nextCursor,
                    !.pages = @ + 1]
    ELSE IF cursor = NoCursor /\ failing = {}
    THEN [year |-> year, limit |-> limit, photos |-> PagePhotos(result.sections),
          next |-> result.nextCursor, pages |-> 1]
    ELSE NoChain

LimitOf(limit_param) == IF limit_param = NoLimit THEN default_limit ELSE limit_param

\* get_photos: 404 for None, else the page (500 when the handler raised).
\* requested is the limit parameter as sent, limit the one the handler got.
ServePhotos(year, cursor, limit_param, failing, follows, r) ==
    /\ cache' = r.cache
    /\ resp' = [op |-> "photos", at |-> now, year |-> year, cursor |-> cursor,
                requested |-> limit_param, limit |-> LimitOf(limit_param),
                failing |-> failing, follows |-> follows,
                status |-> IF r.result = None THEN 404
                           ELSE IF r.result = Raised THEN 500 ELSE 200,
                body |-> r.result, served |-> r.served, listings |-> r.listings,
                ran |-> TRUE]
    /\ hist' = HistAfter(hist, cache, r.cache, KeysSet(r.served),
                         LAMBDA k : ServedIndex(r.served, k[2]))
    /\ chain' = ChainAfter(chain, year, cursor, LimitOf(limit_param), failing, follows,
                           r.result)
    /\ UNCHANGED <<writers, demo_mode, containers, blobs, now>>

\* Query(50, ge=1, le=100) rejects a limit out of range before the handler runs.
RejectPhotos(year, cursor, limit_param, failing) ==
    /\ resp' = [op |-> "photos", at |-> now, year |-> year, cursor |-> cursor,
                requested |-> limit_param, limit |-> LimitOf(limit_param),
                failing |-> failing, follows |-> FALSE,
                status |-> 422, body |-> None, served |-> {}, listings |-> 0,
                ran |-> FALSE]
    /\ chain' = NoChain
    /\ UNCHANGED <<writers, demo_mode, containers, blobs, cache, now, hist>>

\* A handler that runs whatever the limit.
GetPhotos_unchecked(year, cursor, limit_param, failing) ==
    ServePhotos(year, cursor, limit_param, failing, FALSE,
                get_photos_by_year(cache, year, cursor, LimitOf(limit_param), failing))

\* GET /photos/{year}?cursor=&limit=
GetPhotos(year, cursor, limit_param, failing) ==
    IF LimitOf(limit_param) < min_limit \/ LimitOf(limit_param) > max_limit
    THEN RejectPhotos(year, cursor, limit_param, failing)
    ELSE ServePhotos(year, cursor, limit_param, failing, FALSE,
                     get_photos_by_year(cache, year, cursor, LimitOf(limit_param), failing))

\* The client's next request of a listing: same year and limit, the cursor the
\* last page returned.
FollowCursor ==
    /\ chain # NoChain
    /\ chain.next # NoCursor
    /\ ServePhotos(chain.year, chain.next, chain.limit, {}, TRUE,
                   get_photos_by_year(cache, chain.year, chain.next, chain.limit, {}))

ServePhoto(photo_id, failing, r) ==
    /\ cache' = r.cache
    /\ resp' = [op |-> "photo", at |-> now, photo_id |-> photo_id, failing |-> failing,
                status |-> IF r.result = None THEN 404 ELSE 200,
                body |-> r.result, served |-> r.served, listings |-> r.listings]
    /\ hist' = HistAfter(hist, cache, r.cache, KeysSet(r.served),
                         LAMBDA k : ServedIndex(r.served, k[2]))
    /\ chain' = NoChain
    /\ UNCHANGED <<writers, demo_mode, containers, blobs, now>>

\* GET /photo/{photo_id}
GetPhoto(photo_id, failing) == ServePhoto(photo_id, failing, get_photo_by_id(cache, photo_id, failing))

---------------------------------------------------------------------------
(* The cache's other entry points, the clock and the writer                *)

\* cache_service.invalidate_container(name): the hook for the write path.
InvalidateContainer(name) ==
    /\ cache' = invalidate_container(cache, name)
    /\ hist' = [hist EXCEPT !.held = @ \ {IndexKey(name), YearsKey},
                            !.setAt[IndexKey(name)] = 0, !.setAt[YearsKey] = 0,
                            !.setVal[IndexKey(name)] = None, !.setVal[YearsKey] = None,
                            !.listed = {}]
    /\ resp' = [op |-> "invalidate", at |-> now, name |-> name,
                dropped |-> {k \in {IndexKey(name), YearsKey} : Live(cache, k, now)}]
    /\ chain' = NoChain
    /\ UNCHANGED <<writers, demo_mode, containers, blobs, now>>

\* lifespan(): cache_service.clear() when the application shuts down.
Shutdown ==
    /\ cache' = cache_clear(cache)
    /\ hist' = [hist EXCEPT !.held = {},
                            !.setAt = [k \in Keys |-> 0],
                            !.setVal = [k \in Keys |-> None],
                            !.listed = {}]
    /\ resp' = NoResp
    /\ chain' = NoChain
    /\ UNCHANGED <<writers, demo_mode, containers, blobs, now>>

\* Time passes.
Tick ==
    /\ now + TickStep <= MaxTime
    /\ now' = now + TickStep
    /\ resp' = NoResp
    /\ chain' = NoChain
    /\ UNCHANGED <<writers, demo_mode, containers, blobs, cache, hist>>

\* upload_folder, first store call for a photo's container: _ensure_container.
EnsureContainer(photo) ==
    /\ ContainerFor(photo) \notin containers
    /\ containers' = containers \cup {ContainerFor(photo)}
    /\ hist' = [hist EXCEPT !.wroteAt = now]
    /\ resp' = NoResp
    /\ chain' = NoChain
    /\ UNCHANGED <<writers, demo_mode, blobs, cache, now>>

\* upload_folder, the rest for one photo: read the container's index (or start
\* a fresh one), append the photo's record, save index.json.
SaveInto(name, index, photo) ==
    /\ name \in containers
    /\ \A i \in 1..Len(index.photos) : index.photos[i].id # photo.id
    /\ Len(index.photos) < MaxCatalog
    /\ blobs' = [blobs EXCEPT ![name] = [index EXCEPT !.photos = Append(@, photo)]]
    /\ hist' = [hist EXCEPT !.wroteAt = now]
    /\ resp' = NoResp
    /\ chain' = NoChain
    /\ UNCHANGED <<writers, demo_mode, containers, cache, now>>

SaveIndex(photo) == SaveInto(ContainerFor(photo), uploader_index(ContainerFor(photo)), photo)

---------------------------------------------------------------------------
(* Specifications                                                          *)

StoreOf(opt) ==
    /\ containers = {n \in Names : opt[n] # Absent}
    /\ blobs = [n \in Names |-> IF opt[n] = Absent THEN NoBlob ELSE opt[n]]

\* SpecPage: listings and lookups over a store that does not change. Every
\* catalog of the two 2025 partitions, in every storage order up to MaxCatalog
\* photos, is a start; so is demo mode, which has no store (the years of a
\* store are requested under Spec, those of the demo data here).
InitPage ==
    /\ demo_mode \in BOOLEAN
    /\ IF demo_mode
       THEN containers = {} /\ blobs = [n \in Names |-> NoBlob]
       ELSE \E q4 \in StoredOptions(N_2025q4), q3 \in StoredOptions(N_2025q3) :
              StoreOf([n \in Names |->
                         IF n = N_2025q4 THEN q4
                         ELSE IF n = N_2025q3 THEN q3
                         ELSE IF n = N_2024q4 THEN [photos |-> <<pf>>]
                         ELSE NoBlob])
    /\ cache = EmptyCache
    /\ now = 0
    /\ resp = NoResp
    /\ chain = NoChain
    /\ hist = InitHist
    /\ writers = NoWriters

PageYears == {2025, 9999}
PageCursors == {NoCursor, C_garbage, C_badmonth, C_naive, T_1005}
PageLimits == 1..MaxLimit
PageIds == {"pb", "demo-003", "nope"}
PageFailing == {{N_2025q4}, {N_2025q3}}

\* <<year, cursor, limit>> of the listings: every cursor and limit for the
\* year that has partitions; the year without any is answered before the
\* cursor and the limit are looked at.
PageRequests ==
    {<<2025, c, l>> : c \in PageCursors, l \in PageLimits}
      \cup {<<y, c, 1>> : y \in PageYears \ {2025}, c \in {NoCursor, T_1005}}

NextPage ==
    \/ \E q \in PageRequests : GetPhotos(q[1], q[2], q[3], {})
    \/ \E f \in PageFailing : GetPhotos(2025, NoCursor, MaxLimit, f)
    \/ FollowCursor
    \/ \E id \in PageIds : GetPhoto(id, {})
    \/ demo_mode /\ GetYears

SpecPage == InitPage /\ [][NextPage]_vars

\* Spec: the service with its cache over a store the uploader writes to while
\* time passes. The store starts with the static-site container only.
Init ==
    /\ demo_mode = FALSE
    /\ containers = {N_web}
    /\ blobs = [n \in Names |-> NoBlob]
    /\ cache = EmptyCache
    /\ now = 0
    /\ resp = NoResp
    /\ chain = NoChain
    /\ hist = InitHist
    /\ writers = NoWriters

Uploads == {pa, pb, pf}

\* <<year, limit, failing>> of the listings requested, <<id, failing>> of the
\* lookups: a year with and without partitions, the default limit and one out
\* of range, the store answering and the 2025-q4 container failing.
PhotoQueries ==
    {<<2025, NoLimit, {}>>, <<2025, NoLimit, {N_2025q4}>>, <<9999, NoLimit, {}>>,
     <<2025, 0, {}>>, <<2025, 101, {}>>}

PhotoLookups == {<<"pb", {}>>, <<"pb", {N_2025q4}>>, <<"nope", {}>>}

Next ==
    \/ Tick
    \/ \E photo \in Uploads : EnsureContainer(photo)
    \/ \E photo \in Uploads : SaveIndex(photo)
    \/ GetYears
    \/ \E q \in PhotoQueries : GetPhotos(q[1], NoCursor, q[2], q[3])
    \/ \E q \in PhotoLookups : GetPhoto(q[1], q[2])
    \/ InvalidateContainer(N_2025q4)
    \/ Shutdown

Spec == Init /\ [][Next]_vars

---------------------------------------------------------------------------
(* What the claims speak of                                                *)

\* The containers there are: the store's, or the keys of DEMO_PHOTOS.
ExistingNames == IF demo_mode THEN Range(DemoNames) ELSE containers

\* The containers whose names parse as partitions, and those of one year.
Recognised == {n \in ExistingNames : _parse_container_name(n) # NoMatch}

PartitionsOf(year) == {n \in Recognised : _parse_container_name(n)[1] = year}

\* The catalog the store holds for a container, None when it holds none.
StoredIndex(n) ==
    IF demo_mode THEN DEMO_PHOTOS(n)
    ELSE IF n \in containers /\ blobs[n] # NoBlob THEN blobs[n] ELSE None

StoredPhotos(n) ==
    IF HasPhotos(StoredIndex(n)) THEN {PhotoSummary(p) : p \in Range(StoredIndex(n).photos)}
    ELSE {}

\* All photos of a year's partition catalogs.
YearPhotos(year) == UNION {StoredPhotos(n) : n \in PartitionsOf(year)}

\* The quarter of the partition whose catalog holds the photo.
QuarterOf(year, p) ==
    _parse_container_name(CHOOSE n \in PartitionsOf(year) : p \in StoredPhotos(n))[2]

Stamp(p) == ParseTimestamp(p.takenAt)

\* p does not come after q in (quarter desc, takenAt desc) order.
InOrder(year, p, q) ==
    \/ QuarterOf(year, p) > QuarterOf(year, q)
    \/ QuarterOf(year, p) = QuarterOf(year, q) /\ ~DtLess(Stamp(p), Stamp(q))

\* The photos still to come for a request: all of the year's without a usable
\* cursor, else those taken strictly before it.
Remaining(year, cursor) ==
    {p \in YearPhotos(year) : ~cursor_dt(cursor).ok \/ DtLess(Stamp(p), cursor_dt(cursor))}

\* The two catalogs hold the same records (a listing sorts a cached catalog's
\* photo list in place, so the order may differ from the stored one).
SameCatalog(a, b) ==
    IF HasPhotos(a) /\ HasPhotos(b)
    THEN Len(a.photos) = Len(b.photos) /\ Range(a.photos) = Range(b.photos)
    ELSE a = b

\* The catalog a lookup sees for a container: the cached one while it lives,
\* else the store's, if the store answers.
Visible(n, failing) ==
    IF demo_mode THEN DEMO_PHOTOS(n)
    ELSE IF Live(cache, IndexKey(n), now) THEN cache[IndexKey(n)].value
    ELSE IF n \in failing THEN None
    ELSE StoredIndex(n)

Holds(index, photo_id) ==
    HasPhotos(index) /\ \E i \in 1..Len(index.photos) : index.photos[i].id = photo_id

StrictlyDescending(s) == \A i, j \in 1..Len(s) : i < j => s[i] > s[j]

IsListing == resp.op = "photos" /\ IsPage(resp.body)

ListedPhotos == PagePhotos(resp.body.sections)

QuarterNo(section) == DigitVal(section.quarter[2])

---------------------------------------------------------------------------
(* Claims                                                                  *)

\* C1. Pagination completeness: over an unchanged store, a listing started
\* without cursor and continued with each returned nextCursor until hasMore is
\* false has delivered exactly the photos of the year's catalogs, each once,
\* in (quarter desc, takenAt desc) order.
C1_PaginationComplete ==
    (chain # NoChain /\ chain.next = NoCursor) =>
        /\ Range(chain.photos) = YearPhotos(chain.year)
        /\ Len(chain.photos) = Cardinality(YearPhotos(chain.year))
        /\ \A i, j \in 1..Len(chain.photos) :
             i < j => InOrder(chain.year, chain.photos[i], chain.photos[j])

\* C2. Cursor continuation: the request made with a page's nextCursor returns
\* as its first photo the one whose takenAt the cursor is (the first photo the
\* page left out); for the demo data the request with cursor
\* "2025-10-05T21:45:00Z" and a limit of at least 3 returns demo-003, then
\* demo-004 and demo-005.
C2_CursorContinues ==
    /\ (IsListing /\ resp.follows) =>
          /\ ListedPhotos # <<>>
          /\ ListedPhotos[1].takenAt = resp.cursor
    /\ (IsListing /\ demo_mode /\ resp.year = 2025 /\ resp.cursor = T_1005
        /\ resp.limit >= 3) =>
          [i \in 1..Len(ListedPhotos) |-> ListedPhotos[i].id]
            = <<"demo-003", "demo-004", "demo-005">>

\* C3. Ordering: in every page the sections are in strictly descending
\* quarter order and within a section the photos are in non-increasing
\* takenAt order, as timestamps.
C3_Ordered ==
    IsListing =>
        /\ \A i, j \in 1..Len(resp.body.sections) :
             i < j => QuarterNo(resp.body.sections[i]) > QuarterNo(resp.body.sections[j])
        /\ \A s \in Range(resp.body.sections) :
             \A i, j \in 1..Len(s.photos) :
                i < j => ~DtLess(Stamp(s.photos[i]), Stamp(s.photos[j]))

\* C4. Limit boundary: a page requested, of a store that answers, with a
\* limit equal to the number of photos remaining for the year (all of them
\* without a usable cursor, else those taken before the cursor) holds all of
\* them, with hasMore false and nextCursor null.
C4_LimitBoundary ==
    (IsListing /\ resp.failing = {}
       /\ resp.limit = Cardinality(Remaining(resp.year, resp.cursor))) =>
        /\ Range(ListedPhotos) = Remaining(resp.year, resp.cursor)
        /\ Len(ListedPhotos) = resp.limit
        /\ resp.body.hasMore = FALSE
        /\ resp.body.nextCursor = NoCursor

\* A page that took exactly what remained before a cursor, from the second
\* partition of the year.
C4_Witness ==
    /\ IsListing
    /\ resp.cursor = T_1005
    /\ resp.limit = 2
    /\ Cardinality(Remaining(resp.year, resp.cursor)) = 2
    /\ Len(ListedPhotos) = 2
    /\ StoredPhotos(N_2025q4) # {}

\* C5. Unknown year: a listing is absent (404) exactly when no container's
\* name parses to the year; a year with a partition gets a page, a year
\* without one never gets an empty page.
C5_UnknownYear ==
    (resp.op = "photos" /\ resp.status # 422) =>
        /\ (resp.body = None) <=> (PartitionsOf(resp.year) = {})
        /\ (resp.status = 404) <=> (resp.body = None)

\* A 404 for a year without partition while other containers exist.
C5_Witness ==
    /\ resp.op = "photos"
    /\ resp.status = 404
    /\ resp.year = 2025
    /\ N_2024q4 \in containers

\* C6. Point lookup: the lookup returns a record with the requested id
\* whenever a recognised partition's catalog, as the cache or else the store
\* shows it, holds the id; it returns absent (404) exactly when every
\* recognised partition was scanned without a match.
C6_PointLookup ==
    resp.op = "photo" =>
        /\ (\E n \in Recognised : Holds(Visible(n, resp.failing), resp.photo_id))
             => (resp.body # None /\ resp.body.id = resp.photo_id)
        /\ (resp.body = None)
             <=> /\ \A n \in Recognised : ~Holds(Visible(n, resp.failing), resp.photo_id)
                 /\ {s.name : s \in resp.served} = Recognised
        /\ (resp.status = 404) <=> (resp.body = None)

\* A photo found in the second partition scanned, one catalog from the cache
\* and one from the store.
C6_Witness ==
    /\ resp.op = "photo"
    /\ resp.body # None
    /\ resp.photo_id = "pb"
    /\ \E s \in resp.served : s.hit
    /\ \E s \in resp.served : ~s.hit

\* C7 as claimed. GET years returns the years of the containers there are
\* whose names parse, strictly descending, default the maximum; years empty
\* and default null exactly when there is no such container.
C7_YearsOfStore ==
    resp.op = "years" =>
        /\ Range(resp.body.years) = YearsOf(ExistingNames)
        /\ StrictlyDescending(resp.body.years)
        /\ (resp.body.default = NoYear) <=> (YearsOf(ExistingNames) = {})
        /\ resp.body.years # <<>> => resp.body.default = Max(Range(resp.body.years))

\* C7, amended. GET years returns the years of the containers as they were
\* when the list was last read from the store: now when the cache missed,
\* less than cache_ttl_seconds ago when it hit. The list is strictly
\* descending, default is its maximum, and default is null exactly when the
\* returned list is empty.
C7_YearsAsListed ==
    resp.op = "years" =>
        /\ IF resp.hit
           THEN /\ YearsKey \in hist.held
                /\ now - hist.setAt[YearsKey] < cache_ttl_seconds
                /\ Range(resp.body.years) = YearsOf(hist.listed)
           ELSE Range(resp.body.years) = YearsOf(ExistingNames)
        /\ StrictlyDescending(resp.body.years)
        /\ (resp.body.default = NoYear) <=> (resp.body.years = <<>>)
        /\ resp.body.years # <<>> => resp.body.default = Max(Range(resp.body.years))

\* A cached years list served, some time after it was read, while the store
\* has a container more.
C7_Witness ==
    /\ resp.op = "years"
    /\ resp.hit
    /\ resp.body.years # <<>>
    /\ now > hist.setAt[YearsKey]
    /\ hist.listed # containers

\* C8. Cache TTL: a key set at t0 and not set again, deleted, cleared or
\* evicted since is returned by get with the value set (the same object: a
\* catalog's photo list may have been sorted in place meanwhile) at every
\* time before t0 + ttl, and is absent from t0 + ttl on.
C8_CacheTTL ==
    \A k \in hist.held :
        IF now < hist.setAt[k] + cache_ttl_seconds
        THEN /\ cache_get(cache, k, now).found
             /\ IF k = YearsKey THEN cache_get(cache, k, now).value = hist.setVal[k]
                ELSE \/ cache_get(cache, k, now).value = hist.setVal[k]
                     \/ cache_get(cache, k, now).value =
                          [hist.setVal[k] EXCEPT !.photos = sort_photos(@)]
        ELSE ~cache_get(cache, k, now).found

\* An entry past its time that the cache still stores, and one within it.
C8_Witness ==
    /\ \E k \in hist.held : now >= hist.setAt[k] + cache_ttl_seconds /\ cache[k] # NoEntry
    /\ \E k \in hist.held : now > hist.setAt[k] /\ now < hist.setAt[k] + cache_ttl_seconds

\* C9. Bounded staleness: a catalog or years list served from the cache was
\* read from the store less than cache_ttl_seconds earlier, and a request made
\* more than cache_ttl_seconds after the store last changed is answered with
\* the store's current content (for the containers the store answers for).
C9_BoundedStaleness ==
    /\ resp.op \in {"photos", "photo"} =>
         \A s \in resp.served :
            /\ s.hit => /\ IndexKey(s.name) \in hist.held
                        /\ now - hist.setAt[IndexKey(s.name)] < cache_ttl_seconds
                        /\ s.index = hist.setVal[IndexKey(s.name)]
                           \/ s.index = [hist.setVal[IndexKey(s.name)]
                                           EXCEPT !.photos = sort_photos(@)]
            /\ (now - hist.wroteAt > cache_ttl_seconds /\ (s.hit \/ s.name \notin resp.failing))
                 => SameCatalog(s.index, StoredIndex(s.name))
    /\ resp.op = "years" =>
         /\ resp.hit => /\ YearsKey \in hist.held
                        /\ now - hist.setAt[YearsKey] < cache_ttl_seconds
         /\ now - hist.wroteAt > cache_ttl_seconds
              => Range(resp.body.years) = YearsOf(ExistingNames)

\* A listing served an outdated catalog from the cache, within the ttl.
C9_Witness ==
    /\ resp.op = "photos"
    /\ \E s \in resp.served :
          /\ s.hit
          /\ ~SameCatalog(s.index, StoredIndex(s.name))
          /\ now > hist.setAt[IndexKey(s.name)]

\* C10. Invalidation hook: invalidate_container(c) removes the catalog entry
\* of c and the years entry and leaves every other entry as it was; a catalog
\* read or a years read that finds its entry removed misses the cache and
\* returns the store's current content (when the store answers).
C10_InvalidationHook ==
    [][/\ resp'.op = "invalidate" =>
            /\ cache'[IndexKey(resp'.name)] = NoEntry
            /\ cache'[YearsKey] = NoEntry
            /\ \A k \in Keys \ {IndexKey(resp'.name), YearsKey} : cache'[k] = cache[k]
       /\ resp'.op \in {"photos", "photo"} =>
            \A s \in resp'.served :
               cache[IndexKey(s.name)] = NoEntry =>
                  /\ ~s.hit
                  /\ s.name \notin resp'.failing => s.index = StoredIndex(s.name)
       /\ (resp'.op = "years" /\ cache[YearsKey] = NoEntry) =>
            /\ ~resp'.hit
            /\ Range(resp'.body.years) = YearsOf(ExistingNames)]_vars

\* An invalidation that removed a live catalog entry and the live years list
\* while another container's catalog stays cached.
C10_Witness ==
    /\ resp.op = "invalidate"
    /\ resp.dropped = {IndexKey(resp.name), YearsKey}
    /\ Live(cache, IndexKey(N_2024q4), now)

\* C11. Partition enumeration is cached: once the containers have been listed
\* and the list is cached (under "available_years", the one key a listing of
\* the containers is stored under), a years request, a listing or a lookup
\* made while that entry lives performs no container enumeration.
C11_EnumerationCached ==
    /\ (resp.op = "years" /\ resp.hit) => resp.listings = 0
    /\ (resp.op = "photos" /\ resp.ran /\ Live(cache, YearsKey, now)) => resp.listings = 0
    /\ (resp.op = "photo" /\ Live(cache, YearsKey, now)) => resp.listings = 0

\* C14. Limit validation: a listing request is rejected (422) exactly when
\* its limit is given and outside 1..100, and then the handler does not run
\* and nothing is read; a request without limit runs the handler with 50; the
\* handler only ever runs with a limit in 1..100.
C14_LimitValidated ==
    [][resp'.op = "photos" =>
         /\ (resp'.status = 422)
              <=> (resp'.requested # NoLimit
                   /\ (resp'.requested < min_limit \/ resp'.requested > max_limit))
         /\ resp'.status = 422 =>
              /\ ~resp'.ran
              /\ resp'.served = {}
              /\ cache' = cache
         /\ resp'.status # 422 => resp'.ran
         /\ resp'.ran => (min_limit <= resp'.limit /\ resp'.limit <= max_limit)
         /\ (resp'.ran /\ resp'.requested = NoLimit) => resp'.limit = default_limit
         /\ (resp'.ran /\ resp'.requested # NoLimit) => resp'.limit = resp'.requested]_vars

\* A request with limit 101 rejected while the cache holds the year's catalog.
C14_Witness ==
    /\ resp.op = "photos"
    /\ resp.status = 422
    /\ resp.requested = 101
    /\ Live(cache, IndexKey(N_2025q4), now)

\* C12. Permissive cursor: a listing requested with a cursor that does not
\* parse as a timestamp returns, without error, exactly the page the same
\* request returns without cursor.
C12_PermissiveCursor ==
    [][(resp'.op = "photos" /\ resp'.ran /\ resp'.cursor # NoCursor
        /\ ~ParseTimestamp(resp'.cursor).ok) =>
          /\ resp'.body # Raised
          /\ resp'.body = get_photos_by_year(cache, resp'.year, NoCursor, resp'.limit,
                                             resp'.failing).result]_vars

\* A first page of two photos with more to come, served for a cursor whose
\* month is 13.
C12_Witness ==
    /\ IsListing
    /\ resp.cursor = C_badmonth
    /\ Len(ListedPhotos) = 2
    /\ resp.body.hasMore

\* The photos of the catalog a request sees for a container.
VisiblePhotos(n, failing) ==
    IF HasPhotos(Visible(n, failing))
    THEN {PhotoSummary(p) : p \in Range(Visible(n, failing).photos)}
    ELSE {}

SectionsOf(n) ==
    {s \in Range(resp.body.sections) : QuarterNo(s) = _parse_container_name(n)[2]}

\* C13. Best-effort degradation: when the store fails for a partition's
\* catalog, the listing raises nothing and returns a page; the page has no
\* section for that partition (unless its catalog was still cached), and
\* the year's other partitions are listed as usual while the page has room.
C13_BestEffort ==
    (~demo_mode /\ resp.op = "photos" /\ resp.ran /\ resp.failing # {}
       /\ PartitionsOf(resp.year) # {}) =>
        /\ IsPage(resp.body)
        /\ \A n \in resp.failing \cap PartitionsOf(resp.year) :
             ~Live(cache, IndexKey(n), now) => SectionsOf(n) = {}
        /\ \A n \in PartitionsOf(resp.year) \ resp.failing :
             (VisiblePhotos(n, resp.failing) # {} /\ Len(ListedPhotos) < resp.limit)
               => \E s \in SectionsOf(n) : Range(s.photos) = VisiblePhotos(n, resp.failing)

\* The store failed for 2025-q4, which holds photos; the page lists 2025-q3.
C13_Witness ==
    /\ ~demo_mode
    /\ IsListing
    /\ resp.failing = {N_2025q4}
    /\ StoredPhotos(N_2025q4) # {}
    /\ ~Live(cache, IndexKey(N_2025q4), now)
    /\ Len(resp.body.sections) = 1
    /\ Range(ListedPhotos) = StoredPhotos(N_2025q3)


---------------------------------------------------------------------------
(* Partition naming: the uploader's names read back by the backend         *)

\* Capture dates: years of three and of four digits, every month.
NameYears == {999, 1000, 1999, 2000, 2024, 2025, 9999}

NameMonths == 1..12

\* Container names a storage account may hold or a caller may pass.
N_upper == <<"2", "0", "2", "5", "-", "Q", "4">>
N_q5 == <<"2", "0", "2", "5", "-", "q", "5">>
N_q0 == <<"2", "0", "2", "5", "-", "q", "0">>
N_nodash == <<"2", "0", "2", "5", "q", "4">>
N_short == <<"2", "0", "2", "-", "q", "4">>
N_letter == <<"2", "0", "a", "5", "-", "q", "4">>
N_long == <<"2", "0", "2", "5", "-", "q", "4", "4">>
N_prefixed == <<"x", "2", "0", "2", "5", "-", "q", "4">>
N_other == <<"2", "0", "2", "5", "-", "p", "4">>

ParseNames ==
    {N_web, N_2025q4, N_2025q3, N_upper, N_q5, N_q0, N_nodash, N_short, N_letter,
     N_long, N_prefixed, N_other}

\* upload_folder names the container of a capture date; the backend parses
\* the name when it lists the containers.
FormatName(year, month) ==
    /\ resp' = [op |-> "name", year |-> year, month |-> month,
                name |-> _get_container_name(year, month),
                parsed |-> _parse_container_name(_get_container_name(year, month))]
    /\ UNCHANGED <<writers, demo_mode, containers, blobs, cache, now, chain, hist>>

\* The backend parses the name of a container it finds.
ParseName(name) ==
    /\ resp' = [op |-> "parse", name |-> name, parsed |-> _parse_container_name(name)]
    /\ UNCHANGED <<writers, demo_mode, containers, blobs, cache, now, chain, hist>>

\* SpecNames: names generated and parsed, and requests over a store whose
\* static-site container holds a catalog of its own.
InitNames ==
    /\ demo_mode = FALSE
    /\ \E q4 \in {Absent, [photos |-> <<pa>>]} :
         StoreOf([n \in Names |->
                    IF n = N_web THEN [photos |-> <<pb>>]
                    ELSE IF n = N_2025q4 THEN q4
                    ELSE Absent])
    /\ cache = EmptyCache
    /\ now = 0
    /\ resp = NoResp
    /\ chain = NoChain
    /\ hist = InitHist
    /\ writers = NoWriters

NameLookups == {"pa", "pb"}

NextNames ==
    \/ \E year \in NameYears, month \in NameMonths : FormatName(year, month)
    \/ \E name \in ParseNames : ParseName(name)
    \/ GetYears
    \/ GetPhotos(2025, NoCursor, MaxLimit, {})
    \/ \E id \in NameLookups : GetPhoto(id, {})

SpecNames == InitNames /\ [][NextNames]_vars

\* ^\d{4}-[qQ][1-4]$ over the characters of a name.
MatchesPattern(name) ==
    /\ Len(name) = 7
    /\ \A i \in 1..4 : \E d \in 0..9 : name[i] = Digits[d + 1]
    /\ name[5] = "-"
    /\ name[6] = "q" \/ name[6] = "Q"
    /\ \E k \in 1..4 : name[7] = Digits[k + 1]

Unmatched == {n \in containers : ~MatchesPattern(n)}

\* C15. Partition naming round-trip: the name generated for a capture date
\* whose year has four digits parses to that year and quarter
\* (month - 1) div 3 + 1, a quarter in 1..4; a name that does not match
\* ^\d{4}-[qQ][1-4]$ parses to absent, and a container so named gives no
\* year, is never read for a listing or a lookup, and none of its photos is
\* returned.
C15_NamingRoundTrip ==
    /\ (resp.op = "name" /\ resp.year >= 1000 /\ resp.year <= 9999) =>
         /\ resp.parsed = <<resp.year, ((resp.month - 1) \div 3) + 1>>
         /\ resp.parsed[2] \in 1..4
    /\ (resp.op \in {"name", "parse"} /\ ~MatchesPattern(resp.name)) => resp.parsed = NoMatch
    /\ (resp.op = "years" /\ ~demo_mode) =>
         \A i \in 1..Len(resp.body.years) :
            \E n \in containers \ Unmatched : _parse_container_name(n)[1] = resp.body.years[i]
    /\ (resp.op \in {"photos", "photo"} /\ ~demo_mode) =>
         \A s \in resp.served : s.name \notin Unmatched
    /\ (IsListing /\ ~demo_mode) =>
         \A n \in Unmatched : Range(ListedPhotos) \cap StoredPhotos(n) = {}
    /\ (resp.op = "photo" /\ ~demo_mode /\ resp.body # None) =>
         \A n \in Unmatched : resp.body.id \notin {p.id : p \in StoredPhotos(n)}

\* December 2025 is named 2025-q4 and read back as (2025, 4), after requests
\* that cached the catalog of 2025-q4 and left that of $web alone.
C15_Witness ==
    /\ resp.op = "name" /\ resp.year = 2025 /\ resp.month = 12
    /\ resp.name = N_2025q4 /\ resp.parsed = <<2025, 4>>
    /\ N_web \in Unmatched /\ StoredPhotos(N_web) # {}
    /\ Live(cache, IndexKey(N_2025q4), now)
    /\ ~Live(cache, IndexKey(N_web), now)


\* C16. Read-only core: after any listings and lookups, every catalog the
\* cache holds (the demo catalogs likewise) is identical, the order of its
\* photos included, to the catalog that was fetched from the store.
C16_ReadOnlyCore ==
    /\ ~demo_mode =>
         \A n \in Names :
            (IndexKey(n) \in hist.held /\ Live(cache, IndexKey(n), now))
               => cache[IndexKey(n)].value = hist.setVal[IndexKey(n)]
    /\ demo_mode =>
         \A s \in (IF resp.op \in {"photos", "photo"} THEN resp.served ELSE {}) :
            s.index = DEMO_PHOTOS(s.name)


\* C18. No early termination: a page with hasMore false (nextCursor null)
\* leaves no photo of the year that passes the cursor filter unreturned; so
\* when the limit is reached at the last photo of a partition while a lower
\* quarter of the year holds a photo, the page has hasMore true.
C18_NoEarlyTermination ==
    (IsListing /\ resp.failing = {} /\ ~resp.body.hasMore) =>
        Remaining(resp.year, resp.cursor) \subseteq Range(ListedPhotos)


\* C19. In every page get_photos_by_year returns, hasMore is true exactly
\* when nextCursor is not null.
C19_HasMoreIffCursor ==
    IsListing => (resp.body.hasMore <=> resp.body.nextCursor # NoCursor)

\* Two pages of the demo data: one with a cursor, and the last one.
C19_Witness ==
    /\ IsListing /\ demo_mode
    /\ chain # NoChain /\ chain.pages = 2
    /\ ~resp.body.hasMore /\ resp.body.nextCursor = NoCursor
    /\ ListedPhotos # <<>>

\* C20. Page size bound: the photos of a page, over all its sections, are
\* never more than limit, and exactly limit when nextCursor is not null.
C20_PageSizeBound ==
    IsListing =>
        /\ Len(ListedPhotos) <= resp.limit
        /\ resp.body.nextCursor # NoCursor => Len(ListedPhotos) = resp.limit

\* A page of two photos from two sections with a cursor into the second.
C20_Witness ==
    /\ IsListing
    /\ resp.limit = 2
    /\ Len(resp.body.sections) = 2
    /\ Len(ListedPhotos) = 2
    /\ resp.body.nextCursor # NoCursor


\* C17. Cache atomicity under concurrency: however the requests, the
\* invalidations and the shutdown interleave, a get of the shared cache
\* returns absent or a value that one earlier set wrote in full: a catalog
\* served from the cache is the one that was set under its key, and a years
\* list served from the cache is the list that was set.
C17_CacheAtomic ==
    /\ (resp.op \in {"photos", "photo"} /\ ~demo_mode) =>
         \A s \in resp.served :
            s.hit => /\ IndexKey(s.name) \in hist.held
                     /\ s.index = hist.setVal[IndexKey(s.name)]
    /\ (resp.op = "years" /\ resp.hit) =>
         /\ YearsKey \in hist.held
         /\ resp.body = YearsBody(hist.setVal[YearsKey])


\* C21. Strict cursor filter: when a request carries a cursor that parses,
\* every photo of the returned page was taken strictly before the cursor,
\* and a nextCursor that is not null is strictly before the cursor too.
C21_StrictCursor ==
    (IsListing /\ resp.cursor # NoCursor /\ cursor_dt(resp.cursor).ok) =>
        /\ \A i \in 1..Len(ListedPhotos) :
             DtLess(Stamp(ListedPhotos[i]), cursor_dt(resp.cursor))
        /\ resp.body.nextCursor # NoCursor =>
             DtLess(ParseTimestamp(resp.body.nextCursor), cursor_dt(resp.cursor))

\* A page after the cursor 2025-10-05T21:45:00Z over a catalog that holds a
\* photo taken at that very time: the page has a photo and a further cursor.
C21_Witness ==
    /\ IsListing
    /\ resp.cursor = T_1005
    /\ \E p \in YearPhotos(resp.year) : p.takenAt = T_1005
    /\ ListedPhotos # <<>>
    /\ resp.body.nextCursor # NoCursor


\* The photos of a partition that the request sees and that pass its cursor
\* filter.
Surviving(n) ==
    {p \in VisiblePhotos(n, resp.failing) :
       ~cursor_dt(resp.cursor).ok \/ DtLess(Stamp(p), cursor_dt(resp.cursor))}

\* C22. Empty partitions are skipped, not terminal: a partition whose catalog
\* is absent, has no photos list or has no photo passing the cursor filter
\* gets no section and does not end the iteration (the first partition with a
\* surviving photo gets its section); every section holds a photo; and a year
\* whose partitions all yield nothing gets a page without sections and with
\* hasMore false, not an absent result.
C22_EmptySkipped ==
    (resp.op = "photos" /\ resp.ran /\ PartitionsOf(resp.year) # {}
       /\ resp.body # Raised) =>
        /\ IsPage(resp.body)
        /\ \A s \in Range(resp.body.sections) : s.photos # <<>>
        /\ \A n \in PartitionsOf(resp.year) : Surviving(n) = {} => SectionsOf(n) = {}
        /\ \A n \in PartitionsOf(resp.year) :
             (/\ Surviving(n) # {}
              /\ \A m \in PartitionsOf(resp.year) :
                   _parse_container_name(m)[2] > _parse_container_name(n)[2]
                      => Surviving(m) = {})
               => SectionsOf(n) # {}
        /\ (\A n \in PartitionsOf(resp.year) : Surviving(n) = {}) =>
             /\ resp.body.sections = <<>>
             /\ ~resp.body.hasMore

\* 2025-q4 holds photos, none taken before the cursor; the page lists 2025-q3.
C22_Witness ==
    /\ IsListing /\ ~demo_mode
    /\ resp.cursor = T_1005
    /\ VisiblePhotos(N_2025q4, resp.failing) # {}
    /\ Surviving(N_2025q4) = {}
    /\ Len(resp.body.sections) = 1
    /\ SectionsOf(N_2025q3) # {}


\* Where in the stored catalog of container n the photo with this id is.
StoredAt(n, id) ==
    CHOOSE k \in 1..Len(StoredIndex(n).photos) : StoredIndex(n).photos[k].id = id

\* C23. Stable tie order: two photos of one partition with the same takenAt
\* are listed in the order the stored catalog has them, on the first request
\* and on every later one served from the cached catalog.
C23_StableTies ==
    IsListing =>
        \A n \in PartitionsOf(resp.year) :
           \A s \in SectionsOf(n) :
              \A i, j \in 1..Len(s.photos) :
                 (i < j /\ s.photos[i].takenAt = s.photos[j].takenAt)
                    => StoredAt(n, s.photos[i].id) < StoredAt(n, s.photos[j].id)

\* 2025-q3 is stored as pe, pd, both taken at the same time; a request served
\* from the cached catalog lists pe before pd.
C23_Witness ==
    /\ IsListing /\ ~demo_mode
    /\ StoredIndex(N_2025q3) = [photos |-> <<pe, pd>>]
    /\ pd.takenAt = pe.takenAt
    /\ \E s \in resp.served : s.name = N_2025q3 /\ s.hit
    /\ \E s \in SectionsOf(N_2025q3) : s.photos = <<PhotoSummary(pe), PhotoSummary(pd)>>


\* The photos of a sequence taken strictly before a time, in their order.
Below(photos, cdt) ==
    SelectSeq(photos, LAMBDA p : DtLess(ParseTimestamp(p.takenAt), cdt))

\* The photos of the stored catalog of a container, in storage order.
StoredSeq(n) == IF HasPhotos(StoredIndex(n)) THEN StoredIndex(n).photos ELSE <<>>

\* The catalogs a writer may have left in a container.
Catalogs(n) == {[photos |-> s] : s \in DistinctSeqs(Candidates(n), MaxCatalog)}

\* The catalogs the year's partitions may hold instead of what they do hold,
\* when only photos taken at the cursor's time or later were added, removed
\* or changed.
Rewritten(year, cdt) ==
    {f \in [PartitionsOf(year) -> UNION {Catalogs(n) : n \in PartitionsOf(year)}] :
       \A n \in PartitionsOf(year) :
          /\ f[n] \in Catalogs(n)
          /\ Below(f[n].photos, cdt) = Below(StoredSeq(n), cdt)}

\* The cache holding such catalogs for the partitions.
CacheOver(f) ==
    [k \in Keys |->
       IF Len(k) = 2 /\ k[2] \in DOMAIN f
       THEN [value |-> f[k[2]], expires |-> now + cache_ttl_seconds]
       ELSE cache[k]]

\* C24. Position independence: the page returned for a year, a cursor that
\* parses and a limit depends only on the photos taken before the cursor;
\* over any catalogs of the same partitions that differ from the stored ones
\* only in photos taken at the cursor's time or later, the same request
\* returns the same page.
C24_PositionIndependent ==
    (IsListing /\ ~demo_mode /\ resp.failing = {} /\ resp.cursor # NoCursor
       /\ cursor_dt(resp.cursor).ok) =>
        \A f \in Rewritten(resp.year, cursor_dt(resp.cursor)) :
           get_photos_by_year(CacheOver(f), resp.year, resp.cursor, resp.limit, {}).result
             = resp.body

\* The same for the cursors that carry a UTC offset, as every nextCursor the
\* service returns does: these compare with every takenAt.
C24_AwareCursor ==
    (IsListing /\ ~demo_mode /\ resp.failing = {} /\ resp.cursor # NoCursor
       /\ cursor_dt(resp.cursor).ok /\ cursor_dt(resp.cursor).aware) =>
        \A f \in Rewritten(resp.year, cursor_dt(resp.cursor)) :
           get_photos_by_year(CacheOver(f), resp.year, resp.cursor, resp.limit, {}).result
             = resp.body


\* C25. Catalog fetches are memoized: once a request has read a partition's
\* catalog from the store, no listing and no lookup reads that catalog from
\* the store again until the entry has expired, was evicted or was
\* invalidated: the request takes it from the cache.
C25_FetchMemoized ==
    [][(resp' # resp /\ resp'.op \in {"photos", "photo"}) =>
          \A s \in resp'.served :
             (/\ IndexKey(s.name) \in hist.held
              /\ now < hist.setAt[IndexKey(s.name)] + cache_ttl_seconds)
                => s.hit]_vars

\* A lookup that took every catalog it scanned from the cache, some time
\* after the catalogs were read from the store.
C25_Witness ==
    /\ resp.op = "photo"
    /\ resp.served # {}
    /\ \A s \in resp.served : s.hit /\ resp.at > hist.setAt[IndexKey(s.name)]
    /\ resp.at = now


---------------------------------------------------------------------------
(* The write path: upload_folder runs, delete_photo and show_photo         *)
(* (memoir_uploader: uploader.py, deleter.py, viewer.py)                   *)

\* The runs of upload_folder, each a process of its own (a CLI invocation),
\* and the photos each has found for one container (skip_duplicates is off,
\* the default: every photo gets a record with a fresh id).
Runs == {"u1", "u2"}

BatchOf(u) == IF u = "u1" THEN <<pa>> ELSE <<pc>>

\* A run before its first store call.
RunAt(u) ==
    [pc |-> "start", batch |-> BatchOf(u), name |-> ContainerFor(Head(BatchOf(u))),
     index  |-> [photos |-> <<>>],     \* the index the run holds
     before |-> <<>>,                  \* history: the stored photos when it read
     failed |-> FALSE,                 \* history: its read of index.json raised
     added  |-> {}]                    \* history: the records it appended

\* container_client.exists() / create_container(): _ensure_container.
UploadEnsure(u) ==
    /\ writers[u].pc = "start"
    /\ containers' = containers \cup {writers[u].name}
    /\ writers' = [writers EXCEPT ![u].pc = "ensured"]
    /\ resp' = NoResp
    /\ UNCHANGED <<demo_mode, blobs, cache, now, chain, hist>>

\* PhotoUploader._get_container_index: the stored index; {"photos": []} when
\* there is no index.json and when the read raises (except Exception: pass).
UploadRead(u, raises) ==
    /\ writers[u].pc = "ensured"
    /\ writers' = [writers EXCEPT
          ![u].pc = "read",
          ![u].index = IF raises \/ blobs[writers[u].name] = NoBlob
                       THEN [photos |-> <<>>] ELSE blobs[writers[u].name],
          ![u].before = IF blobs[writers[u].name] = NoBlob THEN <<>>
                        ELSE blobs[writers[u].name].photos,
          ![u].failed = raises /\ blobs[writers[u].name] # NoBlob]
    /\ resp' = NoResp
    /\ UNCHANGED <<demo_mode, containers, blobs, cache, now, chain, hist>>

\* The loop body for one photo: _upload_single_photo, then
\* index["photos"].append(result); an exception leaves the photo out.
UploadPhoto(u, uploaded) ==
    /\ writers[u].pc = "read"
    /\ writers[u].batch # <<>>
    /\ writers' = [writers EXCEPT
          ![u].batch = Tail(@),
          ![u].index = IF uploaded
                       THEN [@ EXCEPT !.photos = Append(@, Head(writers[u].batch))]
                       ELSE @,
          ![u].added = IF uploaded THEN @ \cup {Head(writers[u].batch)} ELSE @]
    /\ resp' = NoResp
    /\ UNCHANGED <<demo_mode, containers, blobs, cache, now, chain, hist>>

\* _save_container_index: upload_blob(json.dumps(index), overwrite=True).
UploadSave(u) ==
    /\ writers[u].pc = "read"
    /\ writers[u].batch = <<>>
    /\ blobs' = [blobs EXCEPT ![writers[u].name] = writers[u].index]
    /\ writers' = [writers EXCEPT ![u].pc = "done"]
    /\ hist' = [hist EXCEPT !.wroteAt = now]
    /\ resp' = NoResp
    /\ UNCHANGED <<demo_mode, containers, cache, now, chain>>

\* len(name) == 7 and name[4:6] == "-Q": the containers delete_photo and
\* show_photo look into.
MatchesNamingPattern(name) == Len(name) = 7 /\ SubSeq(name, 5, 6) = <<"-", "Q">>

NoFind == [notfound |-> TRUE]

\* The first position of the id in a photo list, 0 when it is not there.
PositionOf(photos, photo_id) ==
    IF \E i \in 1..Len(photos) : photos[i].id = photo_id
    THEN CHOOSE i \in 1..Len(photos) :
            /\ photos[i].id = photo_id
            /\ \A j \in 1..(i - 1) : photos[j].id # photo_id
    ELSE 0

\* PhotoDeleter._find_photo: [name, index, at] of the first match over the
\* containers listed, or None (NoFind).
RECURSIVE _find_photo(_, _)
_find_photo(names, photo_id) ==
    IF names = <<>> THEN NoFind
    ELSE IF ~MatchesNamingPattern(Head(names)) THEN _find_photo(Tail(names), photo_id)
    ELSE IF blobs[Head(names)] = NoBlob THEN _find_photo(Tail(names), photo_id)
    ELSE IF PositionOf(blobs[Head(names)].photos, photo_id) = 0
    THEN _find_photo(Tail(names), photo_id)
    ELSE [name |-> Head(names), index |-> blobs[Head(names)],
          at |-> PositionOf(blobs[Head(names)].photos, photo_id)]

\* list.pop(i)
Pop(s, i) == SubSeq(s, 1, i - 1) \o SubSeq(s, i + 1, Len(s))

\* delete_photo past _find_photo: ValueError("Photo not found") for None,
\* else the record is popped and index.json saved.
DeleteFound(photo_id, r) ==
    /\ blobs' = IF r = NoFind THEN blobs
                ELSE [blobs EXCEPT ![r.name] = [r.index EXCEPT !.photos = Pop(@, r.at)]]
    /\ resp' = [op |-> "delete", photo_id |-> photo_id, found |-> r # NoFind]
    /\ hist' = IF r = NoFind THEN hist ELSE [hist EXCEPT !.wroteAt = now]
    /\ UNCHANGED <<writers, demo_mode, containers, cache, now, chain>>

\* memoir-uploader delete PHOTO_ID
DeletePhoto(photo_id) == DeleteFound(photo_id, _find_photo(list_containers, photo_id))

\* PhotoViewer.show_photo: the record is displayed, or ValueError("Photo not
\* found"). It reads the containers as _find_photo does, a missing or
\* unreadable index.json counting as {"photos": []}.
ShowPhoto(photo_id) ==
    /\ resp' = [op |-> "show", photo_id |-> photo_id,
                found |-> _find_photo(list_containers, photo_id) # NoFind]
    /\ UNCHANGED <<writers, demo_mode, containers, blobs, cache, now, chain, hist>>

\* SpecWrite: two upload_folder runs for 2025-q4, their store calls
\* interleaved, with deletions and displays by id, over a store where the
\* container does not exist, has no index.json, or lists one photo.
WriteStores == {Absent, NoBlob, [photos |-> <<pb>>]}

InitWrite ==
    /\ demo_mode = FALSE
    /\ \E q4 \in WriteStores :
         StoreOf([n \in Names |->
                    IF n = N_web THEN NoBlob ELSE IF n = N_2025q4 THEN q4 ELSE Absent])
    /\ cache = EmptyCache
    /\ now = 0
    /\ resp = NoResp
    /\ chain = NoChain
    /\ hist = InitHist
    /\ writers = [u \in Runs |-> RunAt(u)]

WriteIds == {"pa", "pb"}

NextWrite ==
    \/ \E u \in Runs : UploadEnsure(u)
    \/ \E u \in Runs, raises \in BOOLEAN : UploadRead(u, raises)
    \/ \E u \in Runs, uploaded \in BOOLEAN : UploadPhoto(u, uploaded)
    \/ \E u \in Runs : UploadSave(u)
    \/ \E id \in WriteIds : DeletePhoto(id)
    \/ \E id \in WriteIds : ShowPhoto(id)

SpecWrite == InitWrite /\ [][NextWrite]_vars

\* The records of a container's stored index.
Records(index) == IF HasPhotos(index) THEN Range(index.photos) ELSE {}

\* C26. Upload never loses catalog records: when a run saves a partition's
\* index.json that no other writer has touched since the run read it, the
\* saved index holds every record the partition held before and one record
\* for every photo the run uploaded, also when the run's read of index.json
\* raised.
C26_UploadKeepsRecords ==
    [][\A u \in Runs :
          (/\ writers[u].pc = "read" /\ writers'[u].pc = "done"
           /\ Records(blobs[writers[u].name]) = Range(writers[u].before)) =>
              /\ Range(writers[u].before) \subseteq Records(blobs'[writers[u].name])
              /\ writers[u].added \subseteq Records(blobs'[writers[u].name])]_vars


\* C27. Concurrent writers do not lose updates: once the runs that wrote a
\* partition have all saved (none with a failed read), the partition's
\* index.json holds every record any of them added.
C27_NoLostUpdate ==
    (\A u \in Runs : writers[u].pc = "done" /\ ~writers[u].failed) =>
        \A u \in Runs : writers[u].added \subseteq Records(blobs[writers[u].name])

\* C28. Upload-then-find: delete_photo and show_photo recognise the
\* containers the uploader creates, so for an id that a container's
\* index.json records, delete_photo finds the record and removes it and
\* show_photo finds it, neither raising "Photo not found".
C28_UploadThenFind ==
    [][(/\ resp'.op \in {"delete", "show"}
        /\ \E n \in containers : Holds(StoredIndex(n), resp'.photo_id)) =>
           /\ resp'.found
           /\ resp'.op = "delete" =>
                \A n \in containers : ~Holds(blobs'[n], resp'.photo_id)]_vars


\* C29. Failures are not cached: a catalog fetch that finds no index.json or
\* fails with a store error leaves no cache entry for the partition, and a
\* fetch that finds no live entry returns the stored catalog whenever the
\* store answers with one: an outage hides a partition for no longer than
\* it lasts.
C29_FailuresNotCached ==
    [][(resp' # resp /\ resp'.op \in {"photos", "photo"}) =>
          \A s \in resp'.served :
             /\ (~s.hit /\ s.index = None) => ~Live(cache', IndexKey(s.name), now)
             /\ (~Live(cache, IndexKey(s.name), now) /\ s.name \notin resp'.failing
                   /\ StoredIndex(s.name) # None)
                  => s.index = StoredIndex(s.name)]_vars

\* A listing during an outage of 2025-q4, whose catalog the store holds: the
\* fetch failed and the cache has no entry for the partition.
C29_Witness ==
    /\ resp.op = "photos"
    /\ resp.failing = {N_2025q4}
    /\ StoredIndex(N_2025q4) # None
    /\ \E s \in resp.served : s.name = N_2025q4 /\ ~s.hit /\ s.index = None
    /\ cache[IndexKey(N_2025q4)] = NoEntry


\* C30. Total on cursors: whatever the cursor - unparseable, a timestamp with
\* an offset, or a parseable timestamp or date without one - a listing over
\* catalogs whose takenAt values end in Z completes with a page or absent; it
\* never raises.
C30_TotalOnCursors ==
    (resp.op = "photos" /\ resp.ran) =>
        /\ resp.body # Raised
        /\ resp.status # 500

===========================================================================
